---- MODULE Spec2Model ----
(***************************************************************************)
(* Verification model of the transcript discovery / selection / retrieval  *)
(* pipeline: jp_scraper.py (structured listing site) and scraper.py (open  *)
(* web search, candidate ranking, cascading fetch).                        *)
(***************************************************************************)
EXTENDS Integers, Sequences, FiniteSets, TLC

VARIABLES
    jpc,            \* scrape_japanese_transcript: control point
    found,          \* items as returned by analyze_company_page (discovery order)
    items,          \* items after items.sort(...) (line 320)
    latest_date,
    window_start,
    recent_candidates,
    current_winner,
    secondary_doc,
    docs_to_fetch,
    st_pc,          \* stitch_html_transcript: control point
    page,           \* stitch_html_transcript.page
    full_text,      \* stitch_html_transcript.full_text (one chunk per page)
    st_fetches,     \* pages requested so far through get_soup, in order
    st_result,      \* value returned by stitch_html_transcript
    pdf_pc,         \* download_and_extract_pdf: control point
    temp_filename,  \* download_and_extract_pdf.temp_filename
    scratch,        \* scratch files that exist on disk
    chunks_left,    \* chunks r.iter_content has still to deliver
    text,           \* download_and_extract_pdf.text
    total_pages,
    pdf_i,          \* index of the page (or image) the loop is at
    time_up,        \* time.time() - start_time > MAX_EXECUTION_TIME
    ocr_available,  \* OCR_AVAILABLE
    images,         \* len(images) returned by convert_from_path
    ocr_text,
    pdf_result,     \* value returned by download_and_extract_pdf
    us_pc,          \* get_transcript_data / fetch_page: control point
    ticker,         \* get_transcript_data.ticker
    candidates,     \* list returned by find_transcript_candidates (ranked)
    cand_i,         \* position of the for loop over candidates[:3]
    fetched,        \* candidates fetch_page was called with, in call order
    mirror_i,       \* fetch_page: position in mirrors
    profiles,       \* fetch_page.profiles after random.shuffle
    profile_i,      \* fetch_page: position in profiles
    tried,          \* strategies attempted by the current fetch_page call
    last_outcome,   \* how the last attempt of the current call ended
    result,         \* value returned by get_transcript_data
    fc_pc,          \* find_transcript_candidates: control point
    query_i,        \* position of "for query in queries"
    backend_calls,  \* search backend calls made so far, in order
    fc_candidates,  \* find_transcript_candidates.candidates
    unseen,         \* elements of set(candidates) list() has not yet produced
    unique_candidates,
    ranked_candidates,
    final_list,     \* value returned by find_transcript_candidates
    ap_pc,          \* analyze_company_page: control point
    ap_links,       \* number of links of all_links handled so far
    ap_items,       \* analyze_company_page.items
    seen_urls,      \* analyze_company_page.seen_urls
    fd_pc,          \* scrape_japanese_transcript, lines 344-374: control point
    fd_docs,        \* docs_to_fetch as the loop sees it
    fd_i,           \* position of "for doc in docs_to_fetch"
    fd_calls,       \* extractor calls made so far, in order, with their outcome
    final_output,   \* scrape_japanese_transcript.final_output, block by block
    fd_logs,        \* entries this part appended to logs
    fd_result       \* value returned at line 374

jpVars == <<jpc, found, items, latest_date, window_start, recent_candidates, current_winner, secondary_doc, docs_to_fetch>>

stVars == <<st_pc, page, full_text, st_fetches, st_result>>

pdfVars == <<pdf_pc, temp_filename, scratch, chunks_left, text, total_pages, pdf_i,
             time_up, ocr_available, images, ocr_text, pdf_result>>

usVars == <<us_pc, ticker, candidates, cand_i, fetched, mirror_i, profiles, profile_i,
            tried, last_outcome, result>>

fcVars == <<fc_pc, query_i, backend_calls, fc_candidates, unseen, unique_candidates,
            ranked_candidates, final_list>>

apVars == <<ap_pc, ap_links, ap_items, seen_urls>>

fdVars == <<fd_pc, fd_docs, fd_i, fd_calls, final_output, fd_logs, fd_result>>

vars == <<jpVars, stVars, pdfVars, usVars, fcVars, apVars, fdVars>>

None == [none |-> TRUE]

(***************************************************************************)
(* Bounds of the model.                                                    *)
(***************************************************************************)
MaxItems == 3
MaxChunks == 2
MaxPages == 2
MaxCandidates == 4
MaxRaw == 3
MaxLinks == 3

(***************************************************************************)
(* Dates.  parse_date_from_text builds datetime(y, m, d); differences are  *)
(* taken in whole days, so a date is modelled by its proleptic Gregorian   *)
(* ordinal, computed as datetime does.                                     *)
(***************************************************************************)
IsLeap(y) == (y % 4 = 0) /\ ((y % 100 # 0) \/ (y % 400 = 0))

DaysInMonth(y, m) ==
    IF m = 2 THEN (IF IsLeap(y) THEN 29 ELSE 28)
    ELSE IF m \in {4, 6, 9, 11} THEN 30 ELSE 31

RECURSIVE DaysBeforeMonth(_, _)
DaysBeforeMonth(y, m) ==
    IF m = 1 THEN 0 ELSE DaysBeforeMonth(y, m - 1) + DaysInMonth(y, m - 1)

DaysBeforeYear(y) ==
    (y - 1) * 365 + ((y - 1) \div 4) - ((y - 1) \div 100) + ((y - 1) \div 400)

ToOrdinal(y, m, d) == DaysBeforeYear(y) + DaysBeforeMonth(y, m) + d

\* Publication dates the listing page may carry.
Dates ==
    { ToOrdinal(2025, 11, 10), ToOrdinal(2025, 11, 8), ToOrdinal(2025, 10, 31),
      ToOrdinal(2025, 9, 9),   ToOrdinal(2025, 8, 1),  ToOrdinal(2025, 3, 3) }

(***************************************************************************)
(* Document types and the priority table.                                  *)
(***************************************************************************)
TYPE_PRIORITY ==
    ( "HTML_TRANSCRIPT"  :> 1 ) @@
    ( "PDF_TRANSCRIPT"   :> 2 ) @@
    ( "PDF_PRESENTATION" :> 3 ) @@
    ( "PDF_TANSHIN"      :> 4 ) @@
    ( "OTHER"            :> 99 )

\* Types analyze_company_page can emit: a link that is neither an article
\* nor a keyword-matched PDF is skipped, so OTHER never reaches the list.
ItemTypes == {"HTML_TRANSCRIPT", "PDF_TRANSCRIPT", "PDF_PRESENTATION", "PDF_TANSHIN"}

MkItem(t, d, u) == [type |-> t, date |-> d, url |-> u, priority |-> TYPE_PRIORITY[t]]

(***************************************************************************)
(* list.sort(key=...) is stable: the element at index i lands after every  *)
(* element with a smaller key and after the earlier elements with an equal *)
(* key.  reverse=True keeps the original order of equal keys, i.e. it is   *)
(* the stable ascending sort on the negated key.                           *)
(***************************************************************************)
SortedPos(keys, i) ==
    1 + Cardinality({ j \in 1..Len(keys) :
                        keys[j] < keys[i] \/ (keys[j] = keys[i] /\ j < i) })

StableSort(s, keys) ==
    [ p \in 1..Len(s) |-> s[CHOOSE i \in 1..Len(s) : SortedPos(keys, i) = p] ]

Range(s) == { s[i] : i \in 1..Len(s) }

(***************************************************************************)
(* Selection engine (scrape_japanese_transcript, lines 320-348).           *)
(***************************************************************************)
WINDOW_DAYS == 10

SortItems_Ascending(its) ==
    StableSort(its, [i \in 1..Len(its) |-> its[i].date * 100 - its[i].priority])

\* items.sort(key=lambda x: (x['date'], -x['priority']), reverse=True)
SortItems(its) ==
    StableSort(its, [i \in 1..Len(its) |-> -(its[i].date * 100 - its[i].priority)])

\* window_start = latest_date - timedelta(days=10)
WindowStart_Forward(latest) == latest + WINDOW_DAYS

WindowStart(latest) == latest - WINDOW_DAYS

\* [i for i in items if i['date'] >= window_start]
InWindow_Strict(it, start) == it.date > start

InWindow(it, start) == it.date >= start

RecentCandidates(its, start) ==
    SelectSeq(its, LAMBDA it : InWindow(it, start))

\* recent_candidates.sort(key=lambda x: x['priority'])
SortByPriority_Skipped(its) == its

SortByPriority(its) ==
    StableSort(its, [i \in 1..Len(its) |-> its[i].priority])

IsTranscript_AnyType(it) == TRUE

\* transcripts = [i for i in items if i['type'] in [...]]
\* transcripts.sort(key=lambda x: x['date'], reverse=True)
IsTranscript(it) == it.type \in {"HTML_TRANSCRIPT", "PDF_TRANSCRIPT"}

Transcripts(its) ==
    LET T == SelectSeq(its, IsTranscript)
    IN  StableSort(T, [i \in 1..Len(T) |-> -(T[i].date)])

\* days_diff = (current_winner['date'] - tx['date']).days; 60 < days_diff < 250
ContextLow == 60
ContextHigh == 250

InContextRange_Inclusive(days_diff) == ContextLow <= days_diff /\ days_diff < ContextHigh

InContextRange(days_diff) == ContextLow < days_diff /\ days_diff < ContextHigh

\* for tx in transcripts: if 60 < days_diff < 250: secondary_doc = tx; break
FirstInRange(txs, winner) ==
    LET hits == { i \in 1..Len(txs) : InContextRange(winner.date - txs[i].date) }
    IN  IF hits = {} THEN None
        ELSE txs[CHOOSE i \in hits : \A j \in hits : i <= j]

\* docs_to_fetch = [current_winner]; if secondary_doc: docs_to_fetch.append(...)
DocsToFetch(winner, secondary) ==
    IF secondary = None THEN <<winner>> ELSE <<winner, secondary>>

(***************************************************************************)
(* scrape_japanese_transcript as a state machine.                          *)
(***************************************************************************)
JpInit ==
    /\ jpc = "start"
    /\ found = <<>>
    /\ items = <<>>
    /\ latest_date = 0
    /\ window_start = 0
    /\ recent_candidates = <<>>
    /\ current_winner = None
    /\ secondary_doc = None
    /\ docs_to_fetch = <<>>

\* analyze_company_page, one iteration of "for link in all_links" that
\* reaches items.append: the link is classified, dated and not seen before
\* (url = position of the link among the kept links).
AnalyzeLink ==
    /\ jpc = "start"
    /\ Len(found) < MaxItems
    /\ \E t \in ItemTypes, d \in Dates :
        found' = Append(found, MkItem(t, d, Len(found) + 1))
    /\ UNCHANGED <<jpc, items, latest_date, window_start, recent_candidates, current_winner, secondary_doc, docs_to_fetch>>
    /\ UNCHANGED <<stVars, pdfVars, usVars, fcVars, apVars, fdVars>>

\* items = analyze_company_page(soup, logs); if not items: return None, logs
AnalyzeCompanyPage ==
    /\ jpc = "start"
    /\ jpc' = IF found = <<>> THEN "returned" ELSE "analyzed"
    /\ UNCHANGED <<found, items, latest_date, window_start, recent_candidates, current_winner, secondary_doc, docs_to_fetch>>
    /\ UNCHANGED <<stVars, pdfVars, usVars, fcVars, apVars, fdVars>>

\* lines 320-348; recent_candidates[0] on an empty list raises IndexError,
\* which the enclosing try turns into "return None, logs".
SelectDocuments ==
    /\ jpc = "analyzed"
    /\ items' = SortItems(found)
    /\ latest_date' = items'[1].date
    /\ window_start' = WindowStart(latest_date')
    /\ recent_candidates' = SortByPriority(RecentCandidates(items', window_start'))
    /\ IF recent_candidates' = <<>>
       THEN /\ jpc' = "returned"
            /\ UNCHANGED <<current_winner, secondary_doc, docs_to_fetch>>
       ELSE /\ current_winner' = recent_candidates'[1]
            /\ secondary_doc' = FirstInRange(Transcripts(items'), current_winner')
            /\ docs_to_fetch' = DocsToFetch(current_winner', secondary_doc')
            /\ jpc' = "selected"
    /\ UNCHANGED <<found, stVars, pdfVars, usVars, fcVars, apVars, fdVars>>

JpNext == AnalyzeLink \/ AnalyzeCompanyPage \/ SelectDocuments

(***************************************************************************)
(* Pagination stitcher (stitch_html_transcript, lines 162-205).            *)
(*                                                                         *)
(* A fetched page is what the loop body reads from it: whether get_soup    *)
(* returned a soup, whether a main container was found, the list `valid`   *)
(* of text blocks kept by the filters, and whether a "next" link exists.   *)
(***************************************************************************)
STITCH_PAGE_LIMIT == 15

ValidBlocks == { <<>>, <<"a">>, <<"a", "a">>, <<"a", "b">> }

PageResponses ==
    { [soup |-> FALSE, main |-> FALSE, valid |-> <<>>, next |-> FALSE] } \cup
    { [soup |-> TRUE, main |-> FALSE, valid |-> <<>>, next |-> n] : n \in BOOLEAN } \cup
    { [soup |-> TRUE, main |-> TRUE, valid |-> v, next |-> n] :
        v \in ValidBlocks, n \in BOOLEAN }

Target_ZeroBased(p) == IF p > 1 THEN <<"url", "?page=", p - 1>> ELSE <<"url">>

\* target = f"{url}?page={page}" if page > 1 else url
Target(p) == IF p > 1 THEN <<"url", "?page=", p>> ELSE <<"url">>

\* for i, x in enumerate(valid): if i==0 or x != valid[i-1]: deduped.append(x)
Dedupe(valid) ==
    LET keep == { i \in 1..Len(valid) : i = 1 \/ valid[i] # valid[i - 1] }
    IN  [ k \in 1..Cardinality(keep) |->
            valid[CHOOSE i \in keep : Cardinality({ j \in keep : j <= i }) = k] ]

\* "\n\n".join(...): a text is modelled by the list of blocks it joins, so
\* joining joined chunks concatenates their block lists.
RECURSIVE Join(_)
Join(chunks) ==
    IF chunks = <<>> THEN <<>> ELSE Head(chunks) \o Join(Tail(chunks))

\* while page < 15
LoopContinues_Late(p) == p < STITCH_PAGE_LIMIT + 2

LoopContinues(p) == p < STITCH_PAGE_LIMIT

StInit ==
    /\ st_pc = "idle"
    /\ page = 0
    /\ full_text = <<>>
    /\ st_fetches = <<>>
    /\ st_result = <<>>

\* lines 163-167
StitchStart ==
    /\ st_pc = "idle"
    /\ st_pc' = "loop"
    /\ page' = 1
    /\ full_text' = <<>>
    /\ UNCHANGED <<st_fetches, st_result>>
    /\ UNCHANGED <<jpVars, pdfVars, usVars, fcVars, apVars, fdVars>>

\* one iteration of the while loop, lines 170-203
StitchPage ==
    /\ st_pc = "loop"
    /\ LoopContinues(page)
    /\ st_fetches' = Append(st_fetches, Target(page))
    /\ \E r \in PageResponses :
        LET text_chunk == Dedupe(r.valid)
        IN  IF ~r.soup \/ ~r.main \/ text_chunk = <<>>
            THEN /\ st_pc' = "exit"
                 /\ UNCHANGED <<page, full_text>>
            ELSE /\ full_text' = Append(full_text, text_chunk)
                 /\ IF r.next
                    THEN /\ page' = page + 1
                         /\ st_pc' = "loop"
                    ELSE /\ page' = page
                         /\ st_pc' = "exit"
    /\ UNCHANGED st_result
    /\ UNCHANGED <<jpVars, pdfVars, usVars, fcVars, apVars, fdVars>>

\* the loop condition fails, or a break was taken: return "\n\n".join(full_text)
StitchReturn ==
    /\ \/ st_pc = "exit"
       \/ st_pc = "loop" /\ ~LoopContinues(page)
    /\ st_pc' = "returned"
    /\ st_result' = Join(full_text)
    /\ UNCHANGED <<page, full_text, st_fetches>>
    /\ UNCHANGED <<jpVars, pdfVars, usVars, fcVars, apVars, fdVars>>

StNext == StitchStart \/ StitchPage \/ StitchReturn

(***************************************************************************)
(* Bounded binary extractor (download_and_extract_pdf, lines 77-160).      *)
(*                                                                         *)
(* A text is the list of the pieces appended to it.  Each piece has a      *)
(* length and leading / trailing whitespace, so len(text.strip()) can be   *)
(* computed as the code does.                                              *)
(***************************************************************************)
NoFile == "None"
TempFile == "tmp.pdf"

PDF_MIN_TEXT == 50
OCR_LAST_PAGE == 15

\* [leading whitespace, visible characters, trailing whitespace] of a piece
Piece(tok) ==
    CASE tok = "PAGE_SHORT" -> <<0, 2, 1>>     \* extracted + "\n", a page number
      [] tok = "PAGE_LONG"  -> <<0, 60, 1>>    \* extracted + "\n", a paragraph
      [] tok = "TRUNC"      -> <<1, 44, 1>>    \* "\n[...Truncated: Server Time Limit Reached...]\n"
      [] tok = "OCR_TRUNC"  -> <<1, 33, 1>>    \* "\n[...OCR Truncated: Time Limit...]\n"
      [] tok = "OCR_BLANK"  -> <<1, 20, 2>>    \* "\n--- Page N (OCR) ---\n" + "" + "\n"
      [] tok = "OCR_PAGE"   -> <<1, 81, 1>>    \* "\n--- Page N (OCR) ---\n" + recognised text + "\n"
      [] tok = "ERR_IMAGE"  -> <<1, 69, 1>>    \* "\n[ERROR: This document is an image-based PDF. ...]\n"
      [] tok = "LINK"       -> <<0, 30, 1>>    \* f"Link to original: {url}\n"

RECURSIVE TextLen(_)
TextLen(t) ==
    IF t = <<>> THEN 0
    ELSE Piece(Head(t))[1] + Piece(Head(t))[2] + Piece(Head(t))[3] + TextLen(Tail(t))

\* len(text.strip())
StrippedLen(t) ==
    IF t = <<>> THEN 0
    ELSE TextLen(t) - Piece(t[1])[1] - Piece(t[Len(t)])[3]

OnTimeLimit_Silent(t) == t

\* line 105: text += "\n[...Truncated: Server Time Limit Reached...]\n"
OnTimeLimit(t) == Append(t, "TRUNC")

PdfInit ==
    /\ pdf_pc = "idle"
    /\ temp_filename = NoFile
    /\ scratch = {}
    /\ chunks_left = 0
    /\ text = <<>>
    /\ total_pages = 0
    /\ pdf_i = 0
    /\ time_up = FALSE
    /\ ocr_available = FALSE
    /\ images = 0
    /\ ocr_text = <<>>
    /\ pdf_result = <<>>

\* lines 78-86: locals are initialised; OCR_AVAILABLE was fixed at import
PdfStart ==
    /\ pdf_pc = "idle"
    /\ pdf_pc' = "request"
    /\ text' = <<>>
    /\ temp_filename' = NoFile
    /\ time_up' = FALSE
    /\ ocr_available' \in BOOLEAN
    /\ UNCHANGED <<scratch, chunks_left, total_pages, pdf_i, images, ocr_text, pdf_result>>
    /\ UNCHANGED <<jpVars, stVars, usVars, fcVars, apVars, fdVars>>

\* lines 88-91: requests.get / raise_for_status raise, or the response is
\* good and NamedTemporaryFile(delete=False) creates the scratch file
PdfRequest ==
    /\ pdf_pc = "request"
    /\ \/ /\ pdf_pc' = "except"
          /\ UNCHANGED <<scratch, chunks_left>>
       \/ /\ scratch' = scratch \cup {TempFile}
          /\ chunks_left' \in 0..MaxChunks
          /\ pdf_pc' = "stream"
    /\ UNCHANGED <<temp_filename, text, total_pages, pdf_i, time_up, ocr_available,
                   images, ocr_text, pdf_result>>
    /\ UNCHANGED <<jpVars, stVars, usVars, fcVars, apVars, fdVars>>

\* lines 92-93: one chunk is read and written, or reading / writing raises;
\* leaving the "with" block closes the file and (delete=False) keeps it
PdfWriteChunk ==
    /\ pdf_pc = "stream"
    /\ chunks_left > 0
    /\ \/ /\ chunks_left' = chunks_left - 1
          /\ pdf_pc' = "stream"
       \/ /\ pdf_pc' = "except"
          /\ UNCHANGED chunks_left
    /\ UNCHANGED <<temp_filename, scratch, text, total_pages, pdf_i, time_up,
                   ocr_available, images, ocr_text, pdf_result>>
    /\ UNCHANGED <<jpVars, stVars, usVars, fcVars, apVars, fdVars>>

\* line 94: temp_filename = tf.name, after the last chunk
PdfStreamDone ==
    /\ pdf_pc = "stream"
    /\ chunks_left = 0
    /\ temp_filename' = TempFile
    /\ pdf_pc' = "open"
    /\ UNCHANGED <<scratch, chunks_left, text, total_pages, pdf_i, time_up,
                   ocr_available, images, ocr_text, pdf_result>>
    /\ UNCHANGED <<jpVars, stVars, usVars, fcVars, apVars, fdVars>>

\* lines 97-99: pdfplumber.open raises on a damaged file, or gives the pages
PdfOpen ==
    /\ pdf_pc = "open"
    /\ \/ /\ pdf_pc' = "except"
          /\ UNCHANGED <<total_pages, pdf_i>>
       \/ /\ total_pages' \in 0..MaxPages
          /\ pdf_i' = 0
          /\ pdf_pc' = "pages"
    /\ UNCHANGED <<temp_filename, scratch, chunks_left, text, time_up,
                   ocr_available, images, ocr_text, pdf_result>>
    /\ UNCHANGED <<jpVars, stVars, usVars, fcVars, apVars, fdVars>>

\* lines 101-115: one iteration of "for i, page in enumerate(pdf.pages)"
PdfPage ==
    /\ pdf_pc = "pages"
    /\ pdf_i < total_pages
    /\ \E late \in BOOLEAN :
        /\ time_up' = (time_up \/ late)
        /\ IF time_up'
           THEN /\ text' = OnTimeLimit(text)
                /\ pdf_pc' = "ocrcheck"
                /\ UNCHANGED pdf_i
           ELSE /\ \E extracted \in {"raise", "none", "PAGE_SHORT", "PAGE_LONG"} :
                    text' = IF extracted \in {"raise", "none"} THEN text
                            ELSE Append(text, extracted)
                /\ pdf_i' = pdf_i + 1
                /\ pdf_pc' = "pages"
    /\ UNCHANGED <<temp_filename, scratch, chunks_left, total_pages,
                   ocr_available, images, ocr_text, pdf_result>>
    /\ UNCHANGED <<jpVars, stVars, usVars, fcVars, apVars, fdVars>>

\* the for loop ran out of pages
PdfPagesDone ==
    /\ pdf_pc = "pages"
    /\ pdf_i = total_pages
    /\ pdf_pc' = "ocrcheck"
    /\ UNCHANGED <<temp_filename, scratch, chunks_left, text, total_pages, pdf_i, time_up,
                   ocr_available, images, ocr_text, pdf_result>>
    /\ UNCHANGED <<jpVars, stVars, usVars, fcVars, apVars, fdVars>>

\* lines 119-121 and 145-148
PdfOcrCheck ==
    /\ pdf_pc = "ocrcheck"
    /\ IF StrippedLen(text) < PDF_MIN_TEXT
       THEN IF ocr_available
            THEN /\ pdf_pc' = "convert"
                 /\ UNCHANGED text
            ELSE /\ text' = text \o <<"ERR_IMAGE", "LINK">>
                 /\ pdf_pc' = "finally"
       ELSE /\ pdf_pc' = "finally"
            /\ UNCHANGED text
    /\ UNCHANGED <<temp_filename, scratch, chunks_left, total_pages, pdf_i, time_up,
                   ocr_available, images, ocr_text, pdf_result>>
    /\ UNCHANGED <<jpVars, stVars, usVars, fcVars, apVars, fdVars>>

Min(a, b) == IF a <= b THEN a ELSE b

\* lines 125-127: convert_from_path(temp_filename, last_page=15) raises
\* (inner except: the error is logged, text is left as it is), or renders
\* the leading pages
PdfConvert ==
    /\ pdf_pc = "convert"
    /\ \/ /\ pdf_pc' = "finally"
          /\ UNCHANGED <<images, ocr_text, pdf_i>>
       \/ /\ images' = Min(total_pages, OCR_LAST_PAGE)
          /\ ocr_text' = <<>>
          /\ pdf_i' = 0
          /\ pdf_pc' = "ocr"
    /\ UNCHANGED <<temp_filename, scratch, chunks_left, text, total_pages, time_up,
                   ocr_available, pdf_result>>
    /\ UNCHANGED <<jpVars, stVars, usVars, fcVars, apVars, fdVars>>

\* lines 128-135: one iteration of "for i, image in enumerate(images)"
PdfOcrImage ==
    /\ pdf_pc = "ocr"
    /\ pdf_i < images
    /\ \E late \in BOOLEAN :
        /\ time_up' = (time_up \/ late)
        /\ IF time_up'
           THEN /\ ocr_text' = Append(ocr_text, "OCR_TRUNC")
                /\ pdf_pc' = "ocrdone"
                /\ UNCHANGED pdf_i
           ELSE \/ /\ pdf_pc' = "finally"       \* image_to_string raises
                   /\ UNCHANGED <<ocr_text, pdf_i>>
                \/ /\ \E page_str \in {"OCR_BLANK", "OCR_PAGE"} :
                        ocr_text' = Append(ocr_text, page_str)
                   /\ pdf_i' = pdf_i + 1
                   /\ pdf_pc' = "ocr"
    /\ UNCHANGED <<temp_filename, scratch, chunks_left, text, total_pages,
                   ocr_available, images, pdf_result>>
    /\ UNCHANGED <<jpVars, stVars, usVars, fcVars, apVars, fdVars>>

\* lines 137-141
PdfOcrDone ==
    /\ \/ pdf_pc = "ocrdone"
       \/ pdf_pc = "ocr" /\ pdf_i = images
    /\ text' = IF StrippedLen(ocr_text) > 0 THEN ocr_text ELSE text
    /\ pdf_pc' = "finally"
    /\ UNCHANGED <<temp_filename, scratch, chunks_left, total_pages, pdf_i, time_up,
                   ocr_available, images, ocr_text, pdf_result>>
    /\ UNCHANGED <<jpVars, stVars, usVars, fcVars, apVars, fdVars>>

\* lines 150-151
PdfExcept ==
    /\ pdf_pc = "except"
    /\ pdf_pc' = "finally"
    /\ UNCHANGED <<temp_filename, scratch, chunks_left, text, total_pages, pdf_i, time_up,
                   ocr_available, images, ocr_text, pdf_result>>
    /\ UNCHANGED <<jpVars, stVars, usVars, fcVars, apVars, fdVars>>

\* lines 153-160: if temp_filename and os.path.exists(temp_filename):
\* os.remove(temp_filename); return text
PdfFinally ==
    /\ pdf_pc = "finally"
    /\ scratch' = IF temp_filename # NoFile /\ temp_filename \in scratch
                  THEN scratch \ {temp_filename}
                  ELSE scratch
    /\ pdf_result' = text
    /\ pdf_pc' = "returned"
    /\ UNCHANGED <<temp_filename, chunks_left, text, total_pages, pdf_i, time_up,
                   ocr_available, images, ocr_text>>
    /\ UNCHANGED <<jpVars, stVars, usVars, fcVars, apVars, fdVars>>

PdfNext ==
    \/ PdfStart \/ PdfRequest \/ PdfWriteChunk \/ PdfStreamDone \/ PdfOpen
    \/ PdfPage \/ PdfPagesDone \/ PdfOcrCheck \/ PdfConvert \/ PdfOcrImage
    \/ PdfOcrDone \/ PdfExcept \/ PdfFinally

(***************************************************************************)
(* Cascading fetcher (scraper.py: fetch_page, the parse_*_soup functions   *)
(* and get_transcript_data).                                               *)
(*                                                                         *)
(* A fetched page is what the parsers read from it:                        *)
(*   working    "working..." occurs in the page text                       *)
(*   blocked    the page is a maintenance / CAPTCHA / paywall page         *)
(*   container  the site-specific content element exists                   *)
(*   frags      text fragments the site parser keeps from the container    *)
(*   long       the container text has at least 500 characters             *)
(*   paras      <p> elements with more than 20 characters                  *)
(*   bigdivs    <div> texts longer than 500 characters                     *)
(*   title      "absent" no <title>, "empty" a <title> whose .string is    *)
(*              None, "ok" a <title> with text                             *)
(*   dated      extract_date finds a date in the page                      *)
(***************************************************************************)
Pg(w, b, c, f, l, p, d, t, dt) ==
    [working |-> w, blocked |-> b, container |-> c, frags |-> f, long |-> l,
     paras |-> p, bigdivs |-> d, title |-> t, dated |-> dt]

Pages ==
    { Pg(FALSE, FALSE, TRUE,  6, TRUE,  6, 0, "ok", TRUE),      \* a transcript article
      Pg(FALSE, FALSE, TRUE,  6, TRUE,  6, 0, "empty", TRUE),   \* the same, <title> without text
      Pg(FALSE, FALSE, FALSE, 0, FALSE, 6, 0, "absent", FALSE),  \* article without the site markup
      Pg(FALSE, FALSE, FALSE, 0, FALSE, 1, 4, "ok", FALSE),      \* text in large <div>s only
      Pg(FALSE, FALSE, TRUE,  0, FALSE, 0, 0, "ok", FALSE),      \* empty container
      Pg(FALSE, FALSE, TRUE,  2, FALSE, 2, 0, "ok", FALSE),      \* teaser: two short paragraphs
      Pg(FALSE, FALSE, FALSE, 0, FALSE, 0, 0, "absent", FALSE),  \* nothing
      Pg(TRUE,  FALSE, FALSE, 0, FALSE, 0, 0, "ok", FALSE),      \* archive placeholder
      Pg(TRUE,  FALSE, TRUE,  6, TRUE,  6, 0, "ok", FALSE),      \* article quoting "working..."
      Pg(FALSE, TRUE,  TRUE,  1, FALSE, 1, 0, "ok", FALSE),      \* "Service Unavailable - Pardon Our Interruption"
      Pg(FALSE, TRUE,  FALSE, 0, FALSE, 6, 0, "ok", FALSE) }     \* challenge page with several paragraphs

Responses ==
    { [raises |-> TRUE, status |-> 0, page |-> Pg(FALSE, FALSE, FALSE, 0, FALSE, 0, 0, "absent", FALSE)] }
    \cup { [raises |-> FALSE, status |-> 403, page |-> Pg(FALSE, TRUE, FALSE, 0, FALSE, 0, 0, "ok", FALSE)] }
    \cup { [raises |-> FALSE, status |-> 200, page |-> pg] : pg \in Pages }

Sources == {"Seeking Alpha", "Investing.com", "Motley Fool", "Yahoo Finance"}

Tickers == {"AAPL", "VWS.CO"}

\* extract_date, lines 259-279: a date found in the page or the default
extract_date(pg) == IF pg.dated THEN "2025-01-30" ELSE "Unknown Date"

\* soup.title.string.strip() if soup.title else ""
Title(pg) == IF pg.title = "absent" THEN "" ELSE "title"

\* A parser outcome: kind "text" (res, metadata), "none" (None, {"error"})
\* or "raise" (an exception leaves the parser).
ParseOk(pg, label, url, symbol, n) ==
    IF pg.title = "empty"
    THEN [kind |-> "raise"]        \* soup.title.string.strip() on None
    ELSE [kind |-> "text",
          text |-> [frags |-> n, blocked |-> pg.blocked],
          meta |-> [source |-> label, url |-> url, symbol_used |-> symbol,
                    title |-> Title(pg), date |-> extract_date(pg),
                    quarter_info |-> <<0, 0>>]]

ParseFail(msg) == [kind |-> "no_text", text |-> None, meta |-> [error |-> msg]]

\* parse_generic_soup, lines 281-299
parse_generic_soup_Lax(pg, url, symbol, label) ==
    LET n == IF pg.paras < 5 THEN pg.paras + pg.bigdivs ELSE pg.paras
    IN  IF n > 3 THEN ParseOk(pg, label, url, symbol, n)
        ELSE IF n > 0 THEN [kind |-> "text",
                            text |-> [frags |-> n, blocked |-> pg.blocked],
                            meta |-> [error |-> "Generic parse failed"]]
        ELSE ParseFail("Generic parse failed")

parse_generic_soup(pg, url, symbol, label) ==
    LET n == IF pg.paras < 5 THEN pg.paras + pg.bigdivs ELSE pg.paras
    IN  IF n > 3 THEN ParseOk(pg, label, url, symbol, n)
        ELSE ParseFail("Generic parse failed")

\* parse_seeking_alpha_soup, lines 301-321
parse_seeking_alpha_soup(pg, url, symbol, label) ==
    IF ~pg.container
    THEN parse_generic_soup(pg, url, symbol, label \o <<"(Generic Fallback)">>)
    ELSE IF pg.frags = 0 THEN ParseFail("Empty content")
    ELSE ParseOk(pg, label, url, symbol, pg.frags)

\* parse_investing_com_soup, lines 323-342
parse_investing_com_soup(pg, url, symbol, label) ==
    IF ~pg.container
    THEN parse_generic_soup(pg, url, symbol, label \o <<"(Generic Fallback)">>)
    ELSE IF ~pg.long
    THEN parse_generic_soup(pg, url, symbol, label \o <<"(Short Content Fallback)">>)
    ELSE ParseOk(pg, label, url, symbol, pg.frags)

\* parse_motley_fool_soup, lines 344-358
parse_motley_fool_soup(pg, url, symbol, label) ==
    IF ~pg.container
    THEN parse_generic_soup(pg, url, symbol, label \o <<"(Generic Fallback)">>)
    ELSE IF pg.frags = 0 THEN ParseFail("Empty Motley Fool content")
    ELSE ParseOk(pg, label, url, symbol, pg.frags)

\* fetch_page, lines 384-387: the parser is chosen by the source
ParseBySource(source, pg, url, symbol) ==
    CASE source = "Seeking Alpha" -> parse_seeking_alpha_soup(pg, url, symbol, <<source>>)
      [] source = "Investing.com" -> parse_investing_com_soup(pg, url, symbol, <<source>>)
      [] source = "Motley Fool"   -> parse_motley_fool_soup(pg, url, symbol, <<source>>)
      [] OTHER                    -> parse_generic_soup(pg, url, symbol, <<source>>)

\* fetch_page, lines 362-363
MIRRORS == <<"https://archive.today", "https://archive.is", "https://archive.ph">>

Mirrors(source) == IF source = "Seeking Alpha" THEN MIRRORS ELSE <<>>

ArchiveLabel_First(mirror) == <<"Archive", MIRRORS[1]>>

\* f"Archive ({mirror})"
ArchiveLabel(mirror) == <<"Archive", mirror>>

\* fetch_page, line 376, and the orders random.shuffle can leave
PROFILES == <<"chrome124", "chrome120", "safari15_5">>

Shuffles ==
    { o \in [1..3 -> Range(PROFILES)] : \A i, j \in 1..3 : i # j => o[i] # o[j] }

\* One attempt through an archive mirror, lines 365-374: what it yields
MirrorAttempt(resp, mirror, url, symbol) ==
    IF resp.raises THEN [kind |-> "raise"]
    ELSE IF resp.status # 200 THEN [kind |-> "non200"]
    ELSE IF resp.page.working THEN [kind |-> "placeholder"]
    ELSE parse_seeking_alpha_soup(resp.page, url, symbol, ArchiveLabel(mirror))

\* One direct attempt under a browser profile, lines 379-389
ProfileAttempt(resp, source, url, symbol) ==
    IF resp.raises THEN [kind |-> "raise"]
    ELSE IF resp.status # 200 THEN [kind |-> "non200"]
    ELSE ParseBySource(source, resp.page, url, symbol)

\* "if res: return res, err"
Accepted(out) == out.kind = "text"

\* get_transcript_data, line 402: candidates[:3]
TOP_N == 3

TopCandidates_All(c) == c

TopCandidates(c) == SubSeq(c, 1, Min(TOP_N, Len(c)))

Source == candidates[cand_i].source
Url == candidates[cand_i].url

UsInit ==
    /\ us_pc = "idle"
    /\ ticker = ""
    /\ candidates = <<>>
    /\ cand_i = 0
    /\ fetched = <<>>
    /\ mirror_i = 0
    /\ profiles = <<>>
    /\ profile_i = 0
    /\ tried = <<>>
    /\ last_outcome = "none"
    /\ result = None

\* get_transcript_data(ticker) is called
GetTranscriptData ==
    /\ us_pc = "idle"
    /\ ticker' \in Tickers
    /\ us_pc' = "finding"
    /\ UNCHANGED <<candidates, cand_i, fetched, mirror_i, profiles, profile_i, tried,
                   last_outcome, result>>
    /\ UNCHANGED <<jpVars, stVars, pdfVars, fcVars, apVars, fdVars>>

\* find_transcript_candidates, lines 248-253: one more entry of the ranked
\* list (links are pairwise distinct: url = rank)
RankCandidate ==
    /\ us_pc = "finding"
    /\ Len(candidates) < MaxCandidates
    /\ \E src \in Sources :
        candidates' = Append(candidates, [url |-> Len(candidates) + 1, source |-> src])
    /\ UNCHANGED <<us_pc, ticker, cand_i, fetched, mirror_i, profiles, profile_i, tried,
                   last_outcome, result>>
    /\ UNCHANGED <<jpVars, stVars, pdfVars, fcVars, apVars, fdVars>>

\* lines 399-402: find_transcript_candidates returns; an empty list ends
\* the run, otherwise the loop over candidates[:3] starts
FindCandidatesReturn ==
    /\ us_pc = "finding"
    /\ IF candidates = <<>>
       THEN /\ result' = [text |-> None, meta |-> [error |-> "No candidates found"]]
            /\ us_pc' = "returned"
            /\ UNCHANGED cand_i
       ELSE /\ cand_i' = 1
            /\ us_pc' = "loop"
            /\ UNCHANGED result
    /\ UNCHANGED <<ticker, candidates, fetched, mirror_i, profiles, profile_i, tried, last_outcome>>
    /\ UNCHANGED <<jpVars, stVars, pdfVars, fcVars, apVars, fdVars>>

\* lines 406-408: find_transcript_candidates raises
FindCandidatesRaise ==
    /\ us_pc = "finding"
    /\ candidates' = <<>>
    /\ result' = [text |-> None, meta |-> [error |-> "str(e)"]]
    /\ us_pc' = "returned"
    /\ UNCHANGED <<ticker, cand_i, fetched, mirror_i, profiles, profile_i, tried,
                   last_outcome>>
    /\ UNCHANGED <<jpVars, stVars, pdfVars, fcVars, apVars, fdVars>>

\* line 403 and fetch_page lines 361-364: fetch_page is entered for the
\* next of candidates[:3]
FetchPage ==
    /\ us_pc = "loop"
    /\ cand_i <= Len(TopCandidates(candidates))
    /\ fetched' = Append(fetched, cand_i)
    /\ mirror_i' = 1
    /\ us_pc' = "mirrors"
    /\ UNCHANGED <<ticker, candidates, cand_i, profiles, profile_i, tried, last_outcome,
                   result>>
    /\ UNCHANGED <<jpVars, stVars, pdfVars, fcVars, apVars, fdVars>>

\* line 405: the loop over candidates[:3] ran out
AllCandidatesFailed ==
    /\ us_pc = "loop"
    /\ cand_i > Len(TopCandidates(candidates))
    /\ result' = [text |-> None, meta |-> [error |-> "Candidates found but failed to parse"]]
    /\ us_pc' = "returned"
    /\ UNCHANGED <<ticker, candidates, cand_i, fetched, mirror_i, profiles, profile_i, tried,
                   last_outcome>>
    /\ UNCHANGED <<jpVars, stVars, pdfVars, fcVars, apVars, fdVars>>

\* fetch_page lines 364-374, one iteration of "for mirror in mirrors"; an
\* accepted result is returned by fetch_page and then by get_transcript_data
\* (line 404)
TryMirror ==
    /\ us_pc = "mirrors"
    /\ mirror_i <= Len(Mirrors(Source))
    /\ tried' = Append(tried, Mirrors(Source)[mirror_i])
    /\ \E resp \in Responses :
        LET out == MirrorAttempt(resp, Mirrors(Source)[mirror_i], Url, ticker)
        IN  IF Accepted(out)
            THEN /\ result' = [text |-> out.text, meta |-> out.meta]
                 /\ last_outcome' = "accepted"
                 /\ us_pc' = "returned"
                 /\ UNCHANGED mirror_i
            ELSE /\ last_outcome' = out.kind
                 /\ mirror_i' = mirror_i + 1
                 /\ UNCHANGED <<result, us_pc>>
    /\ UNCHANGED <<ticker, candidates, cand_i, fetched, profiles, profile_i>>
    /\ UNCHANGED <<jpVars, stVars, pdfVars, fcVars, apVars, fdVars>>

\* fetch_page lines 376-377: profiles is shuffled
ShuffleProfiles ==
    /\ us_pc = "mirrors"
    /\ mirror_i > Len(Mirrors(Source))
    /\ profiles' \in Shuffles
    /\ profile_i' = 1
    /\ us_pc' = "profiles"
    /\ UNCHANGED <<ticker, candidates, cand_i, fetched, mirror_i, tried, last_outcome, result>>
    /\ UNCHANGED <<jpVars, stVars, pdfVars, fcVars, apVars, fdVars>>

\* fetch_page lines 378-389, one iteration of "for profile in profiles"
TryProfile ==
    /\ us_pc = "profiles"
    /\ profile_i <= Len(profiles)
    /\ tried' = Append(tried, profiles[profile_i])
    /\ \E resp \in Responses :
        LET out == ProfileAttempt(resp, Source, Url, ticker)
        IN  IF Accepted(out)
            THEN /\ result' = [text |-> out.text, meta |-> out.meta]
                 /\ last_outcome' = "accepted"
                 /\ us_pc' = "returned"
                 /\ UNCHANGED profile_i
            ELSE /\ last_outcome' = out.kind
                 /\ profile_i' = profile_i + 1
                 /\ UNCHANGED <<result, us_pc>>
    /\ UNCHANGED <<ticker, candidates, cand_i, fetched, mirror_i, profiles>>
    /\ UNCHANGED <<jpVars, stVars, pdfVars, fcVars, apVars, fdVars>>

\* fetch_page line 391: return None, {"error": "Failed to fetch"}; the
\* frame of fetch_page is gone and the loop of get_transcript_data goes on
\* to the next candidate
FetchFailed ==
    /\ us_pc = "profiles"
    /\ profile_i > Len(profiles)
    /\ cand_i' = cand_i + 1
    /\ us_pc' = "loop"
    /\ mirror_i' = 0
    /\ profiles' = <<>>
    /\ profile_i' = 0
    /\ tried' = <<>>
    /\ last_outcome' = "none"
    /\ UNCHANGED <<ticker, candidates, fetched, result>>
    /\ UNCHANGED <<jpVars, stVars, pdfVars, fcVars, apVars, fdVars>>

UsNext ==
    \/ GetTranscriptData \/ RankCandidate \/ FindCandidatesReturn \/ FindCandidatesRaise
    \/ FetchPage \/ AllCandidatesFailed \/ TryMirror \/ ShuffleProfiles \/ TryProfile
    \/ FetchFailed

(***************************************************************************)
(* Candidate search and ranking (scraper.py: parse_quarter_from_string,    *)
(* extract_valid_links, find_transcript_candidates).                       *)
(*                                                                         *)
(* A text is the sequence of its words (upper case); a link is a host and  *)
(* the words of each "/"-separated segment of its path.                    *)
(***************************************************************************)
\* re.search(r'20(\d{2})', text): the year a word carries, 0 for none
Year4(w) ==
    CASE w = "2025" -> 2025
      [] w = "2024" -> 2024
      [] w = "4720253" -> 2025       \* an article number: "47" "2025" "3"
      [] OTHER -> 0

\* re.search(r'\b(\d{2})\b', text): the value of a two-digit word, -1 for others
Year2(w) ==
    CASE w = "24" -> 24
      [] w = "10" -> 10
      [] OTHER -> -1

\* q_map in insertion order
Q_MAP ==
    << <<"Q1", 1>>, <<"1Q", 1>>, <<"FIRST QUARTER", 1>>,
       <<"Q2", 2>>, <<"2Q", 2>>, <<"SECOND QUARTER", 2>>,
       <<"Q3", 3>>, <<"3Q", 3>>, <<"THIRD QUARTER", 3>>,
       <<"Q4", 4>>, <<"4Q", 4>>, <<"FOURTH QUARTER", 4>>, <<"FULL YEAR", 4>>, <<"FY", 4>> >>

First(S) == CHOOSE i \in S : \A j \in S : i <= j

\* parse_quarter_from_string, lines 51-74
parse_quarter_from_string(txt) ==
    LET full  == { i \in 1..Len(txt) : Year4(txt[i]) # 0 }
        short == { i \in 1..Len(txt) : Year2(txt[i]) # -1 }
        year  == IF full # {} THEN Year4(txt[First(full)])
                 ELSE IF short # {} /\ 20 <= Year2(txt[First(short)]) /\ Year2(txt[First(short)]) <= 30
                 THEN 2000 + Year2(txt[First(short)])
                 ELSE 0
        keys  == { k \in 1..Len(Q_MAP) : Q_MAP[k][1] \in Range(txt) }
    IN  IF txt = <<>> \/ year = 0 THEN <<0, 0>>
        ELSE <<year, IF keys = {} THEN 0 ELSE Q_MAP[First(keys)][2]>>

Link(n, h, segs) == [id |-> n, host |-> h, path |-> segs]

\* Links the search result pages may carry.
Links ==
    { Link(1, "seekingalpha.com/article", << <<"4720253", "Q3", "2025", "TRANSCRIPT">> >>),
      Link(2, "seekingalpha.com/article", << <<"Q2", "2024", "EARNINGS-CALL">> >>),
      Link(3, "investing.com",            << <<"Q3", "2025", "TRANSCRIPT">> >>),
      Link(4, "fool.com",                 << <<"2024", "10">>, <<"Q4", "2024", "TRANSCRIPT">>, <<>> >>),
      Link(5, "finance.yahoo.com",        << <<"TRANSCRIPT">> >>),
      Link(6, "search.yahoo.com",         << <<"TRANSCRIPT">> >>),
      Link(7, "help.yahoo.com",           << <<"PRIVACY">> >>) }

RECURSIVE Flatten(_)
Flatten(segs) == IF segs = <<>> THEN <<>> ELSE Head(segs) \o Flatten(Tail(segs))

\* the whole link as text
LinkText(l) == Flatten(l.path)

\* link.split('/')[-1].replace('-', ' ')
Slug(l) == l.path[Len(l.path)]

HasWord(l, w) == w \in Range(LinkText(l))

\* extract_valid_links, lines 103-118: the source of one link, "" for a
\* link that is dropped
SourceOf(l) ==
    IF l.host \in {"search.yahoo.com", "google.com", "bing.com", "ask.com"} THEN ""
    ELSE IF l.host = "seekingalpha.com/article"
            /\ (HasWord(l, "TRANSCRIPT") \/ HasWord(l, "EARNINGS-CALL")) THEN "Seeking Alpha"
    ELSE IF l.host = "investing.com" /\ HasWord(l, "TRANSCRIPT") THEN "Investing.com"
    ELSE IF l.host = "fool.com" /\ HasWord(l, "TRANSCRIPT") THEN "Motley Fool"
    ELSE IF l.host = "finance.yahoo.com" /\ HasWord(l, "TRANSCRIPT") THEN "Yahoo Finance"
    ELSE IF l.host = "marketscreener.com" /\ HasWord(l, "TRANSCRIPT") THEN "MarketScreener"
    ELSE ""

\* extract_valid_links, lines 97-122: list(set(valid)); the order of the
\* returned list is never observed (the caller only extends a list that it
\* turns into a set), it is given here by the id of the links
extract_valid_links(raw) ==
    LET valid == { [link |-> l, source |-> SourceOf(l)] : l \in { x \in Range(raw) : SourceOf(x) # "" } }
        ids   == { c.link.id : c \in valid }
        nth(k) == CHOOSE c \in valid : Cardinality({ j \in ids : j < c.link.id }) = k - 1
    IN  [ k \in 1..Cardinality(valid) |-> nth(k) ]

\* What a search backend may return: any list of links, in any order and
\* multiplicity, of at most MaxRaw entries ([] also stands for a blocked or
\* failed search, lines 161-163, 150-152 and 179-181)
RawLists == UNION { [1..n -> Links] : n \in 0..MaxRaw }

\* queries, lines 197-201
NUM_QUERIES == 2

\* line 213: if not raw_links
NeedsBackup_NoValid(raw) == extract_valid_links(raw) = <<>>

NeedsBackup(raw) == raw = <<>>

\* line 219: len(set([c[0] for c in candidates])) >= 3
ENOUGH_LINKS == 3

Enough(cands) == Cardinality({ c.link : c \in Range(cands) }) >= ENOUGH_LINKS

\* line 224: set(candidates)
UniqueSet(cands) == Range(cands)

\* lines 232-236: score of one candidate
Score(l) ==
    LET score_tuple == parse_quarter_from_string(Slug(l))
    IN  (score_tuple[1] * 10) + score_tuple[2]

\* sort_key, lines 239-244
Prio_Swapped(source) ==
    IF source = "Investing.com" THEN 1 ELSE IF source = "Seeking Alpha" THEN 2 ELSE 0

Prio(source) ==
    IF source = "Investing.com" THEN 2 ELSE IF source = "Seeking Alpha" THEN 1 ELSE 0

\* lines 230-246: ranked_candidates, sorted by sort_key with reverse=True
Ranked(unique) ==
    LET r == [ i \in 1..Len(unique) |->
                 [score |-> Score(unique[i].link), link |-> unique[i].link, source |-> unique[i].source] ]
    IN  StableSort(r, [ i \in 1..Len(r) |-> -(r[i].score * 10 + Prio(r[i].source)) ])

\* lines 249-253: final_list
FinalList(ranked) ==
    [ i \in 1..Len(ranked) |->
        [quarter |-> parse_quarter_from_string(LinkText(ranked[i].link)),
         link |-> ranked[i].link, source |-> ranked[i].source] ]

FcInit ==
    /\ fc_pc = "idle"
    /\ query_i = 0
    /\ backend_calls = <<>>
    /\ fc_candidates = <<>>
    /\ unseen = {}
    /\ unique_candidates = <<>>
    /\ ranked_candidates = <<>>
    /\ final_list = <<>>

\* lines 183-206: the two queries are built, the loop starts
FindTranscriptCandidates ==
    /\ fc_pc = "idle"
    /\ ap_pc = "idle"
    /\ query_i' = 1
    /\ fc_pc' = "query"
    /\ UNCHANGED <<backend_calls, fc_candidates, unseen, unique_candidates, ranked_candidates,
                   final_list>>
    /\ UNCHANGED <<jpVars, stVars, pdfVars, usVars, apVars, fdVars>>

\* lines 207-222: one iteration of "for query in queries": Yahoo, Ask.com
\* if Yahoo gave nothing, extract_valid_links, candidates.extend, break on
\* three distinct links
SearchQuery ==
    /\ fc_pc = "query"
    /\ query_i <= NUM_QUERIES
    /\ \E yahoo \in RawLists :
      \E ask \in (IF NeedsBackup(yahoo) THEN RawLists ELSE {<<>>}) :
        LET backup == NeedsBackup(yahoo)
            raw_links == IF backup THEN ask ELSE yahoo
            current_valid == extract_valid_links(raw_links)
        IN  /\ backend_calls' =
                 backend_calls
                 \o << [query |-> query_i, backend |-> "Yahoo", empty |-> yahoo = <<>>,
                         valid |-> Len(extract_valid_links(yahoo))] >>
                 \o (IF backup
                     THEN << [query |-> query_i, backend |-> "Ask.com", empty |-> ask = <<>>,
                              valid |-> Len(current_valid)] >>
                     ELSE <<>>)
            /\ fc_candidates' = fc_candidates \o current_valid
    /\ IF Enough(fc_candidates')
       THEN /\ fc_pc' = "unique"
            /\ UNCHANGED query_i
       ELSE /\ query_i' = query_i + 1
            /\ fc_pc' = "query"
    /\ UNCHANGED <<unseen, unique_candidates, ranked_candidates, final_list>>
    /\ UNCHANGED <<jpVars, stVars, pdfVars, usVars, apVars, fdVars>>

\* line 224: unique_candidates = list(set(candidates)); lines 226-228:
\* return [] when it is empty
UniqueCandidates ==
    /\ \/ fc_pc = "unique"
       \/ fc_pc = "query" /\ query_i > NUM_QUERIES
    /\ unseen' = UniqueSet(fc_candidates)
    /\ unique_candidates' = <<>>
    /\ fc_pc' = IF unseen' = {} THEN "returned" ELSE "listing"
    /\ UNCHANGED <<query_i, backend_calls, fc_candidates, ranked_candidates, final_list>>
    /\ UNCHANGED <<jpVars, stVars, pdfVars, usVars, apVars, fdVars>>

\* list(set(...)) yields the elements in an order the program does not
\* control: any element not yet produced may come next
ListNext ==
    /\ fc_pc = "listing"
    /\ unseen # {}
    /\ \E c \in unseen :
        /\ unique_candidates' = Append(unique_candidates, [link |-> c.link, source |-> c.source])
        /\ unseen' = unseen \ {c}
    /\ UNCHANGED <<fc_pc, query_i, backend_calls, fc_candidates, ranked_candidates, final_list>>
    /\ UNCHANGED <<jpVars, stVars, pdfVars, usVars, apVars, fdVars>>

\* lines 230-255: score, sort, rebuild and return
RankCandidates ==
    /\ fc_pc = "listing"
    /\ unseen = {}
    /\ ranked_candidates' = Ranked(unique_candidates)
    /\ final_list' = FinalList(ranked_candidates')
    /\ fc_pc' = "returned"
    /\ UNCHANGED <<query_i, backend_calls, fc_candidates, unseen, unique_candidates>>
    /\ UNCHANGED <<jpVars, stVars, pdfVars, usVars, apVars, fdVars>>

FcNext ==
    \/ FindTranscriptCandidates \/ SearchQuery \/ UniqueCandidates \/ ListNext
    \/ RankCandidates

(***************************************************************************)
(* Listing page crawler (jp_scraper.py: analyze_company_page, lines        *)
(* 207-266), link by link.                                                 *)
(*                                                                         *)
(* A link of the page: the document its href points to, whether the href   *)
(* is written relative or absolute, the type its href and text classify it *)
(* as ("SKIP" for a link that is neither an article nor a keyword-matched  *)
(* PDF), and the date found near it (0 for none).                          *)
(***************************************************************************)
PageUrls == {"/articles/1", "/files/2.pdf"}

PageDates == {0, ToOrdinal(2025, 11, 10), ToOrdinal(2025, 8, 1)}

PageLinks ==
    [url : PageUrls, form : {"relative", "absolute"}, type : ItemTypes \cup {"SKIP"},
     date : PageDates]

\* urljoin("https://finance.logmi.jp", href): both forms name one URL
urljoin(lnk) == lnk.url

\* line 218: if full_url in seen_urls: continue
Seen_Never(full_url, seen) == FALSE

Seen(full_url, seen) == full_url \in seen

ApInit ==
    /\ ap_pc = "idle"
    /\ ap_links = 0
    /\ ap_items = <<>>
    /\ seen_urls = {}

\* main.py routes a request to one of the two pipelines; lines 208-211
AnalyzePage ==
    /\ ap_pc = "idle"
    /\ fc_pc = "idle"
    /\ ap_pc' = "links"
    /\ UNCHANGED <<ap_links, ap_items, seen_urls>>
    /\ UNCHANGED <<jpVars, stVars, pdfVars, usVars, fcVars, fdVars>>

\* lines 213-264: one iteration of "for link in all_links"
AnalyzeOneLink ==
    /\ ap_pc = "links"
    /\ ap_links < MaxLinks
    /\ ap_links' = ap_links + 1
    /\ \E lnk \in PageLinks :
        LET full_url == urljoin(lnk)
        IN  IF Seen(full_url, seen_urls) \/ lnk.type = "SKIP" \/ lnk.date = 0
            THEN UNCHANGED <<ap_items, seen_urls>>
            ELSE /\ seen_urls' = seen_urls \cup {full_url}
                 /\ ap_items' = Append(ap_items, MkItem(lnk.type, lnk.date, full_url))
    /\ UNCHANGED ap_pc
    /\ UNCHANGED <<jpVars, stVars, pdfVars, usVars, fcVars, fdVars>>

\* line 266: return items
AnalyzeReturn ==
    /\ ap_pc = "links"
    /\ ap_pc' = "returned"
    /\ UNCHANGED <<ap_links, ap_items, seen_urls>>
    /\ UNCHANGED <<jpVars, stVars, pdfVars, usVars, fcVars, fdVars>>

ApNext == AnalyzePage \/ AnalyzeOneLink \/ AnalyzeReturn

(***************************************************************************)
(* Fetch loop of scrape_japanese_transcript (lines 344-374) with           *)
(* format_doc_header (lines 64-74).  It starts from the documents the      *)
(* selection engine has chosen: a primary of any type and, possibly, an    *)
(* older transcript as secondary.                                          *)
(***************************************************************************)
Primaries == { MkItem(t, ToOrdinal(2025, 11, 10), "/doc/1") : t \in ItemTypes }

Secondaries ==
    {None} \cup { MkItem(t, ToOrdinal(2025, 8, 1), "/doc/2") : t \in {"HTML_TRANSCRIPT", "PDF_TRANSCRIPT"} }

\* format_doc_header, lines 64-74
format_doc_header(item) ==
    [block |-> "HEADER",
     label |-> IF item.type \in {"HTML_TRANSCRIPT", "PDF_TRANSCRIPT"} THEN "EARNINGS CALL TRANSCRIPT"
               ELSE IF item.type = "PDF_PRESENTATION" THEN "PRESENTATION SLIDES"
               ELSE IF item.type = "PDF_TANSHIN" THEN "FINANCIAL RESULTS (TANSHIN)"
               ELSE "DOCUMENT",
     date |-> item.date, type |-> item.type]

\* lines 357-361: the extractor a document goes to
Extractor(doc) ==
    IF doc.type = "HTML_TRANSCRIPT" THEN "stitch_html_transcript" ELSE "download_and_extract_pdf"

\* len(doc_text.strip()) of the texts an extractor may return
DocTextLens == {0, 50, 51}

DOC_MIN_TEXT == 50

Validated_Inclusive(n) == n >= DOC_MIN_TEXT

\* line 364: if doc_text and len(doc_text.strip()) > 50
Validated(n) == n > DOC_MIN_TEXT

\* lines 365, 369-370: what one document adds to final_output
DocBlocks(doc, n) ==
    IF Validated(n)
    THEN << format_doc_header(doc), [block |-> "TEXT", url |-> doc.url] >>
    ELSE << format_doc_header(doc), [block |-> "WARNING"], [block |-> "VIEW_ORIGINAL", url |-> doc.url] >>

FdInit ==
    /\ fd_pc = "idle"
    /\ fd_docs = <<>>
    /\ fd_i = 0
    /\ fd_calls = <<>>
    /\ final_output = <<>>
    /\ fd_logs = <<>>
    /\ fd_result = None

\* lines 344-348
BuildDocsToFetch ==
    /\ fd_pc = "idle"
    /\ \E winner \in Primaries, secondary \in Secondaries :
        fd_docs' = DocsToFetch(winner, secondary)
    /\ final_output' = <<>>
    /\ fd_i' = 1
    /\ fd_pc' = "loop"
    /\ UNCHANGED <<fd_calls, fd_logs, fd_result>>
    /\ UNCHANGED <<jpVars, stVars, pdfVars, usVars, fcVars, apVars>>

\* lines 350-372, one iteration of "for doc in docs_to_fetch": the
\* extractor returns a text, or something inside the try raises before
\* final_output is extended and the handler only logs
FetchDoc ==
    /\ fd_pc = "loop"
    /\ fd_i <= Len(fd_docs)
    /\ LET doc == fd_docs[fd_i]
           \* line 359: the PDF branch announces the download
           logged == IF doc.type = "HTML_TRANSCRIPT" THEN fd_logs
                     ELSE Append(fd_logs, <<"Downloading PDF", doc.type>>)
       IN  \/ /\ fd_calls' = Append(fd_calls, [url |-> doc.url, via |-> Extractor(doc), len |-> -1])
              /\ fd_logs' = Append(logged, <<"Failed to fetch", doc.type>>)
              /\ UNCHANGED final_output
           \/ \E n \in DocTextLens :
              /\ fd_calls' = Append(fd_calls, [url |-> doc.url, via |-> Extractor(doc), len |-> n])
              /\ final_output' = final_output \o DocBlocks(doc, n)
              /\ fd_logs' = IF Validated(n) THEN logged
                            ELSE Append(logged, <<"Warning", doc.type>>)
    /\ fd_i' = fd_i + 1
    /\ UNCHANGED <<fd_pc, fd_docs, fd_result>>
    /\ UNCHANGED <<jpVars, stVars, pdfVars, usVars, fcVars, apVars>>

\* line 374: return final_output if final_output else None, logs
FetchDocsReturn ==
    /\ fd_pc = "loop"
    /\ fd_i > Len(fd_docs)
    /\ fd_result' = [is_none |-> final_output = <<>>, text |-> final_output, logs |-> fd_logs]
    /\ fd_pc' = "returned"
    /\ UNCHANGED <<fd_docs, fd_i, fd_calls, final_output, fd_logs>>
    /\ UNCHANGED <<jpVars, stVars, pdfVars, usVars, fcVars, apVars>>

FdNext == BuildDocsToFetch \/ FetchDoc \/ FetchDocsReturn

Init == JpInit /\ StInit /\ PdfInit /\ UsInit /\ FcInit /\ ApInit /\ FdInit

SpecSelect == Init /\ [][JpNext]_vars

SpecStitch == Init /\ [][StNext]_vars

SpecPdf == Init /\ [][PdfNext]_vars

SpecFetch == Init /\ [][UsNext]_vars

SpecSearch == Init /\ [][FcNext]_vars

SpecFetchDocs == Init /\ [][FdNext]_vars

\* Candidate discovery of either pipeline, one request at a time
SpecDiscover == Init /\ [][ApNext \/ FcNext]_vars

\* The stitcher is straight-line sequential code: a step that can be taken
\* is taken.
FairSpecStitch == SpecStitch /\ WF_vars(StNext)

(***************************************************************************)
(* Properties of the selection engine.                                     *)
(***************************************************************************)
MaxOf(S) == CHOOSE x \in S : \A y \in S : y <= x

FoundDates == { found[i].date : i \in 1..Len(found) }

FoundTranscripts ==
    { it \in Range(found) : it.type \in {"HTML_TRANSCRIPT", "PDF_TRANSCRIPT"} }

\* C1: once the selection has run on a non-empty candidate list, the
\* reference date is the maximum date over all candidates, the eligible set
\* holds no document dated before referenceDate - 10 days, and every
\* candidate dated on or after that bound is in the eligible set.
C1_EligibleWindow ==
    jpc = "selected" =>
        /\ latest_date = MaxOf(FoundDates)
        /\ \A it \in Range(recent_candidates) :
              it \in Range(found) /\ it.date >= MaxOf(FoundDates) - 10
        /\ \A it \in Range(found) :
              it.date >= MaxOf(FoundDates) - 10 => it \in Range(recent_candidates)

\* A candidate exactly on the window bound is eligible while an older one
\* is left out.
C1_Witness ==
    /\ jpc = "selected"
    /\ \E it \in Range(recent_candidates) : it.date = latest_date - 10
    /\ \E it \in Range(found) : it.date < latest_date - 10
    /\ Len(recent_candidates) < Len(found)

\* C2 (as stated): a secondary is returned only when the most recent
\* transcript among all candidates is dated strictly between 60 and 250
\* days before the primary.
C2_Original ==
    (jpc = "selected" /\ secondary_doc # None) =>
        /\ FoundTranscripts # {}
        /\ LET latestTranscriptDate == MaxOf({ t.date : t \in FoundTranscripts })
           IN  /\ 60 < current_winner.date - latestTranscriptDate
               /\ current_winner.date - latestTranscriptDate < 250

TranscriptsInContext ==
    { t \in FoundTranscripts :
        60 < current_winner.date - t.date /\ current_winner.date - t.date < 250 }

\* C2 (amended): a secondary is returned exactly when some transcript among
\* all candidates is dated strictly between 60 and 250 days before the
\* primary; it is then the most recent transcript inside that range, even
\* when a more recent transcript outside the range exists.
C2_SecondaryInRange ==
    jpc = "selected" =>
        /\ (secondary_doc = None) <=> (TranscriptsInContext = {})
        /\ secondary_doc # None =>
              /\ secondary_doc \in TranscriptsInContext
              /\ \A t \in TranscriptsInContext : t.date <= secondary_doc.date

\* A secondary is selected although the most recent transcript is less
\* than 60 days older than the primary.
C2_Witness ==
    /\ jpc = "selected"
    /\ secondary_doc # None
    /\ \E t \in FoundTranscripts :
          t.date > secondary_doc.date /\ current_winner.date - t.date <= 60

ScenarioCandidates ==
    { <<"PDF_TANSHIN",     ToOrdinal(2025, 11, 10)>>,
      <<"HTML_TRANSCRIPT", ToOrdinal(2025, 11, 8)>>,
      <<"PDF_TRANSCRIPT",  ToOrdinal(2025, 8, 1)>> }

IsScenario ==
    /\ Len(found) = 3
    /\ { <<found[i].type, found[i].date>> : i \in 1..3 } = ScenarioCandidates

\* C3: for the candidates PdfTanshin@2025-11-10, HtmlTranscript@2025-11-08,
\* PdfTranscript@2025-08-01, in any discovery order, the primary is the
\* HtmlTranscript of 2025-11-08 and the secondary the PdfTranscript of
\* 2025-08-01.
C3_Scenario ==
    (jpc # "start" /\ jpc # "analyzed" /\ IsScenario) =>
        /\ jpc = "selected"
        /\ current_winner.type = "HTML_TRANSCRIPT"
        /\ current_winner.date = ToOrdinal(2025, 11, 8)
        /\ secondary_doc # None
        /\ secondary_doc.type = "PDF_TRANSCRIPT"
        /\ secondary_doc.date = ToOrdinal(2025, 8, 1)
        /\ Len(docs_to_fetch) = 2

\* The scenario, discovered oldest document first.
C3_Witness ==
    /\ jpc = "selected"
    /\ IsScenario
    /\ found[1].type = "PDF_TRANSCRIPT"
    /\ found[3].type = "PDF_TANSHIN"

\* C4: whenever the crawler yields at least one dated candidate, the
\* selection produces a primary document, and the list of documents to
\* fetch has one or two elements, the primary first.
C4_NeverEmptyAtMostTwo ==
    (jpc # "start" /\ jpc # "analyzed" /\ found # <<>>) =>
        /\ jpc = "selected"
        /\ current_winner \in Range(found)
        /\ Len(docs_to_fetch) \in {1, 2}
        /\ docs_to_fetch[1] = current_winner
        /\ Len(docs_to_fetch) = 2 => docs_to_fetch[2] \in Range(found)

\* Both a one-document and a two-document selection occur; the witness is
\* the two-document one out of a list with more than two candidates.
C4_Witness ==
    /\ jpc = "selected"
    /\ Len(found) > 2
    /\ Len(docs_to_fetch) = 2

(***************************************************************************)
(* Properties of the pagination stitcher.                                  *)
(***************************************************************************)
\* C9: stitch_html_transcript never performs more than 15 loop iterations
\* (page fetches), and it returns, even when every page yields content and
\* a "next page" link.
C9_StitchTerminates ==
    /\ [](Len(st_fetches) <= 15)
    /\ <>(st_pc = "returned")

\* Every page yielded content and a next link, and the stitcher still
\* returned: the loop bound, not the site, ended the walk.
C9_Witness ==
    /\ st_pc = "returned"
    /\ Len(full_text) = Len(st_fetches)
    /\ ~LoopContinues(page)

(***************************************************************************)
(* Properties of the binary extractor.                                     *)
(***************************************************************************)
\* C10: on every exit path of download_and_extract_pdf, any scratch file
\* that was created has been deleted by the time the function returns.
C10_ScratchDeleted ==
    pdf_pc = "returned" => scratch = {}

PageTokens == {"PAGE_SHORT", "PAGE_LONG"}

Last(t) == t[Len(t)]

Front(t) == SubSeq(t, 1, Len(t) - 1)

\* The part of t before its first "TRUNC"
BeforeTrunc(t) ==
    SubSeq(t, 1, (CHOOSE i \in 1..Len(t) : t[i] = "TRUNC" /\ \A j \in 1..(i - 1) : t[j] # "TRUNC") - 1)

AfterTrunc(t) == SubSeq(t, Len(BeforeTrunc(t)) + 2, Len(t))

IsPrefix(a, b) == Len(a) <= Len(b) /\ SubSeq(b, 1, Len(a)) = a

DeclaredOrder(source) == Mirrors(source) \o PROFILES

Rejections == {"non200", "placeholder", "no_text", "raise"}

InFetch == us_pc \in {"mirrors", "profiles"} \/ (us_pc = "returned" /\ tried # <<>>)

\* C5 as stated: the strategies a call has tried are always an initial part
\* of one fixed list for the source (the archive mirrors, then chrome124,
\* chrome120, safari15_5), whatever the call.
C5_Original ==
    InFetch => IsPrefix(tried, DeclaredOrder(Source))

\* C5: a call of fetch_page tries the archive mirrors first, in their
\* declared order and only for Seeking Alpha, and then the three browser
\* profiles, each at most once, in the order the shuffle of this call left
\* them; while the call runs every attempt made so far was rejected (non-200
\* status, placeholder page, parser without text) or raised; the call fails
\* only after every strategy was tried; and when it returns text the last
\* strategy tried is the accepted one, the label naming that mirror if it is
\* a mirror and the source if it is a direct fetch.
C5_CascadeOrder ==
    InFetch =>
        LET m == IF Source = "Seeking Alpha" THEN MIRRORS ELSE <<>>
            k == Min(Len(tried), Len(m))
        IN  /\ SubSeq(tried, 1, k) = SubSeq(m, 1, k)
            /\ Len(tried) > k =>
                /\ k = Len(m)
                /\ profiles \in Shuffles
                /\ SubSeq(tried, k + 1, Len(tried)) = SubSeq(profiles, 1, Len(tried) - k)
            /\ us_pc \in {"mirrors", "profiles"} =>
                /\ tried = <<>> <=> last_outcome = "none"
                /\ tried # <<>> => last_outcome \in Rejections
                /\ (us_pc = "profiles" /\ profile_i > Len(profiles)) => Len(tried) = Len(m) + 3
            /\ us_pc = "returned" =>
                LET last == tried[Len(tried)]
                IN  /\ last_outcome = "accepted"
                    /\ result.text # None
                    /\ IF last \in Range(MIRRORS)
                       THEN /\ result.meta.source[1] = "Archive"
                            /\ result.meta.source[2] = last
                       ELSE result.meta.source[1] = Source

\* Strategy 1 was rejected and strategy 2 accepted, in an order of the
\* profiles other than the declared one.
C5_Witness ==
    /\ us_pc = "returned"
    /\ tried = <<"safari15_5", "chrome124">>
    /\ result.meta.source = <<"Yahoo Finance">>

(***************************************************************************)
(* get_transcript_data: the loop over candidates[:3]                       *)
(***************************************************************************)
C6_State ==
    /\ Len(fetched) <= 3
    /\ \A i \in 1..Len(fetched) : fetched[i] = i
    /\ us_pc \in {"mirrors", "profiles"} => cand_i = Len(fetched)
    /\ (us_pc = "returned" /\ result.text # None) =>
        /\ cand_i = Len(fetched)
        /\ result.meta.url = candidates[cand_i].url
    /\ (us_pc = "returned" /\ result.text = None /\ candidates # <<>>) =>
        Len(fetched) = Min(3, Len(candidates))

\* C6: fetch_page is called for the candidates ranked 1, 2, 3 in that
\* order and for no other; a fetch that returns text ends the run with the
\* text of that candidate, and once the run has ended no candidate is
\* fetched any more; when the top three all fail the run ends with every
\* one of them fetched and nothing ranked fourth or lower.
C6_TopThreeInOrder ==
    [](C6_State) /\ [][us_pc = "returned" => (us_pc' = "returned" /\ fetched' = fetched)]_vars

\* Four candidates, the top three fetched and failed, the fourth left alone.
C6_Witness ==
    /\ us_pc = "returned"
    /\ Len(candidates) = 4
    /\ fetched = <<1, 2, 3>>
    /\ result.text = None

(***************************************************************************)
(* Block pages                                                             *)
(***************************************************************************)
\* C7: text of a maintenance / CAPTCHA / paywall page is never returned as
\* a transcript.
C7_BlockRejected ==
    (us_pc = "returned" /\ result.text # None) => ~result.text.blocked

(***************************************************************************)
(* get_transcript_data: shape of the result                                *)
(***************************************************************************)
ProvenanceKeys == {"source", "url", "symbol_used", "title", "date", "quarter_info"}

\* C8: get_transcript_data always comes to a return (no step is left
\* without a continuation, whatever raised), and what it returns is either
\* non-empty text with metadata carrying exactly source, url, symbol_used,
\* title, date and quarter_info (the symbol and url being those of the
\* call) and no error, or no text with metadata that is exactly an error
\* string.
C8_ResultShape ==
    /\ us_pc # "returned" => (result = None /\ ENABLED UsNext)
    /\ us_pc = "returned" =>
        \/ /\ result.text # None
           /\ result.text.frags > 0
           /\ DOMAIN result.meta = ProvenanceKeys
           /\ result.meta.symbol_used = ticker
           /\ result.meta.url = Url
           /\ result.meta.source # <<>>
           /\ result.meta.date # ""
        \/ /\ result.text = None
           /\ DOMAIN result.meta = {"error"}
           /\ result.meta.error \in {"No candidates found", "Candidates found but failed to parse",
                                     "str(e)"}

\* Text returned for the third candidate after two failed fetches, from a
\* page without <title> and without a date.
C8_Witness ==
    /\ us_pc = "returned"
    /\ result.text # None
    /\ Len(fetched) = 3
    /\ result.meta.title = ""
    /\ result.meta.date = "Unknown Date"

(***************************************************************************)
(* Candidate ranking (find_transcript_candidates)                          *)
(***************************************************************************)
\* year*10 + quarter as the returned entry reports it
ReportedScore(e) == (e.quarter[1] * 10) + e.quarter[2]

\* C12: the recency scores reported by the entries of the returned list
\* never increase along the list.
C12_NonIncreasing ==
    fc_pc = "returned" =>
        \A i, j \in 1..Len(final_list) :
            i < j => ReportedScore(final_list[i]) >= ReportedScore(final_list[j])

(***************************************************************************)
(* Candidate sets hold no URL twice                                        *)
(***************************************************************************)
Distinct(urls) == \A i, j \in 1..Len(urls) : i # j => urls[i] # urls[j]

\* C13: the items analyze_company_page has collected have pairwise
\* distinct URLs, and so have the entries of the list find_transcript_candidates
\* returns, whatever links the page and the search backends delivered.
C13_DistinctUrls ==
    /\ Distinct([ i \in 1..Len(ap_items) |-> ap_items[i].url ])
    /\ fc_pc = "returned" => Distinct([ i \in 1..Len(final_list) |-> final_list[i].link ])

\* The page listed one document twice, once relative and once absolute; and
\* a search returned the same link for both queries.
C13_Witness ==
    \/ /\ ap_pc = "returned"
       /\ ap_links = 3
       /\ Len(ap_items) = 1
    \/ /\ fc_pc = "returned"
       /\ Len(fc_candidates) > Len(final_list)
       /\ Len(final_list) = 2

(***************************************************************************)
(* Selection engine: the primary and the secondary document                *)
(***************************************************************************)
Eligible == { it \in Range(found) : it.date >= MaxOf(FoundDates) - 10 }

\* C14: the primary is an eligible candidate with the smallest priority
\* number of all eligible candidates and, among the eligible candidates of
\* that priority, the latest date; this is stated over the set of the
\* candidates, so it holds for every order the crawler lists them in.
C14_PrimaryIsBest ==
    jpc = "selected" =>
        /\ current_winner \in Eligible
        /\ current_winner = recent_candidates[1]
        /\ \A it \in Eligible :
              /\ current_winner.priority <= it.priority
              /\ it.priority = current_winner.priority => it.date <= current_winner.date

\* Two eligible candidates share the best priority, and the later-dated of
\* them wins although the page listed the earlier one first.
C14_Witness ==
    /\ jpc = "selected"
    /\ Len(found) >= 2
    /\ found[1].priority = current_winner.priority
    /\ found[1].date < current_winner.date
    /\ found[1] \in Eligible

\* C19: a selected secondary is another document than the primary, it is
\* an HTML or PDF transcript, it is dated 61 to 249 days before the
\* primary, and no transcript in that range is dated later; so a
\* transcript dated after the primary or at most 60 days before it is never
\* the secondary.
C19_SecondaryShape ==
    (jpc = "selected" /\ secondary_doc # None) =>
        LET diff == current_winner.date - secondary_doc.date
        IN  /\ secondary_doc # current_winner
            /\ secondary_doc.url # current_winner.url
            /\ secondary_doc \in Range(found)
            /\ secondary_doc.type \in {"HTML_TRANSCRIPT", "PDF_TRANSCRIPT"}
            /\ 61 <= diff /\ diff <= 249
            /\ \A it \in Range(found) :
                  ( /\ it.type \in {"HTML_TRANSCRIPT", "PDF_TRANSCRIPT"}
                    /\ 61 <= current_winner.date - it.date
                    /\ current_winner.date - it.date <= 249 ) => it.date <= secondary_doc.date
            /\ docs_to_fetch = <<current_winner, secondary_doc>>

\* A transcript dated after the primary exists and is passed over for an
\* older one inside the range.
C19_Witness ==
    /\ jpc = "selected"
    /\ secondary_doc # None
    /\ \E it \in Range(found) :
          it.type \in {"HTML_TRANSCRIPT", "PDF_TRANSCRIPT"} /\ it.date > current_winner.date

(***************************************************************************)
(* Search backends (find_transcript_candidates, lines 207-222)             *)
(***************************************************************************)
CallsOf(q, b) == { i \in 1..Len(backend_calls) : backend_calls[i].query = q /\ backend_calls[i].backend = b }

\* C15 as stated: for each query Ask.com is called exactly when Yahoo
\* yielded no link that passes the filter of extract_valid_links.
C15_Original ==
    \A i \in 1..Len(backend_calls) :
        backend_calls[i].backend = "Yahoo" =>
            (backend_calls[i].valid = 0 <=> CallsOf(backend_calls[i].query, "Ask.com") # {})

\* C15: the queries are searched in order; each query calls Yahoo first,
\* and Ask.com directly after it exactly when Yahoo returned no link at
\* all (an empty list, as it also does when blocked or failing), whether or
\* not a link Yahoo returned passes the filter; nothing is called for a
\* query after Ask.com, and no backend is called more than once per query.
C15_BackendOrder ==
    \A i \in 1..Len(backend_calls) :
        LET c == backend_calls[i]
        IN  /\ c.query \in 1..NUM_QUERIES
            /\ Cardinality(CallsOf(c.query, c.backend)) = 1
            /\ c.empty => c.valid = 0
            /\ c.backend = "Yahoo" =>
                /\ IF i = 1 THEN c.query = 1
                   ELSE /\ backend_calls[i - 1].query = c.query - 1
                        /\ \/ backend_calls[i - 1].backend = "Ask.com"
                           \/ ~backend_calls[i - 1].empty
                /\ c.empty <=> (i < Len(backend_calls) /\ backend_calls[i + 1].backend = "Ask.com")
            /\ c.backend = "Ask.com" =>
                /\ i > 1
                /\ backend_calls[i - 1] = [query |-> c.query, backend |-> "Yahoo", empty |-> TRUE, valid |-> 0]

\* Yahoo answered the first query with links none of which passes the
\* filter, and the next call is Yahoo again, for the second query.
C15_Witness ==
    /\ Len(backend_calls) >= 2
    /\ backend_calls[1] = [query |-> 1, backend |-> "Yahoo", empty |-> FALSE, valid |-> 0]
    /\ backend_calls[2].backend = "Yahoo"

(***************************************************************************)
(* OCR fall-back of the binary extractor                                   *)
(***************************************************************************)
OcrTokens == {"OCR_BLANK", "OCR_PAGE", "OCR_TRUNC"}

\* C16: when the pages were read within the time budget and OCR is
\* available, a returned text that comes from OCR holds recognised text,
\* and a returned text of fewer than 50 characters (standard extraction
\* short, OCR recognised nothing or raised) carries the extraction-failed
\* message with the link to the original.
C16_OcrFallback ==
    (pdf_pc = "returned" /\ ocr_available /\ total_pages >= 1 /\ ~time_up) =>
        /\ Range(pdf_result) \cap OcrTokens # {} => "OCR_PAGE" \in Range(pdf_result)
        /\ StrippedLen(pdf_result) < PDF_MIN_TEXT =>
              {"ERR_IMAGE", "LINK"} \subseteq Range(pdf_result)

(***************************************************************************)
(* Ranking: ties and links without a year                                  *)
(***************************************************************************)
\* the source-trust order: Investing.com, Seeking Alpha, every other source
Trust(source) ==
    IF source = "Investing.com" THEN 1 ELSE IF source = "Seeking Alpha" THEN 2 ELSE 3

UrlHasYear(l) == \E i \in 1..Len(LinkText(l)) : Year4(LinkText(l)[i]) # 0

\* a year is parsed from the last path segment
SlugHasYear(l) == parse_quarter_from_string(Slug(l))[1] # 0

\* C17 as stated: a candidate whose URL carries no year has a baseline
\* score, not zero, and stands after every candidate whose URL carries one.
C17_Original ==
    fc_pc = "returned" =>
        \A i \in 1..Len(ranked_candidates) :
            ~UrlHasYear(ranked_candidates[i].link) =>
                /\ ranked_candidates[i].score # 0
                /\ \A j \in 1..Len(ranked_candidates) :
                      UrlHasYear(ranked_candidates[j].link) => j < i

\* C17: the ranked list is in descending order of the score parsed from
\* the last path segment of the link; candidates of equal score stand in
\* the order Investing.com, Seeking Alpha, other sources; a candidate
\* whose last path segment carries no year has the score zero (there is no
\* baseline), stands after every candidate from whose last segment a year
\* is parsed, and is in the returned list like every other candidate found.
C17_TiesAndUnscored ==
    fc_pc = "returned" =>
        /\ Len(final_list) = Len(ranked_candidates)
        /\ { final_list[i].link : i \in 1..Len(final_list) } = { c.link : c \in Range(fc_candidates) }
        /\ \A i \in 1..Len(ranked_candidates) :
            LET c == ranked_candidates[i]
            IN  /\ final_list[i].link = c.link
                /\ final_list[i].source = c.source
                /\ SlugHasYear(c.link) => c.score >= 20000
                /\ ~SlugHasYear(c.link) => c.score = 0
                /\ \A j \in (i + 1)..Len(ranked_candidates) :
                      /\ c.score >= ranked_candidates[j].score
                      /\ c.score = ranked_candidates[j].score =>
                            Trust(c.source) <= Trust(ranked_candidates[j].source)
                      /\ SlugHasYear(ranked_candidates[j].link) => SlugHasYear(c.link)

\* Investing.com and Seeking Alpha tie on Q3 2025 and a link without a
\* year closes the list.
C17_Witness ==
    /\ fc_pc = "returned"
    /\ Len(final_list) = 3
    /\ final_list[1].link.id = 3
    /\ final_list[2].link.id = 1
    /\ final_list[3].link.id = 5

(***************************************************************************)
(* Pagination stitcher: order of the pages                                 *)
(***************************************************************************)
\* the walk ended because the loop condition failed, not on a break
EndedByBound == st_pc = "returned" /\ page = Len(st_fetches) + 1

\* C18 as stated: when every page offers content and a next page, the last
\* page fetched is page 15.
C18_Original ==
    (EndedByBound /\ st_fetches # <<>>) => st_fetches[Len(st_fetches)] = <<"url", "?page=", 15>>

C18_State ==
    /\ \A n \in 1..Len(st_fetches) :
          st_fetches[n] = IF n = 1 THEN <<"url">> ELSE <<"url", "?page=", n>>
    /\ Len(full_text) <= Len(st_fetches)
    /\ Len(st_fetches) <= Len(full_text) + 1
    /\ \A n \in 1..Len(full_text) : full_text[n] # <<>>
    /\ st_pc = "loop" => (Len(full_text) = Len(st_fetches) /\ page = Len(st_fetches) + 1)
    /\ st_pc \in {"exit", "returned"} => page \in {Len(st_fetches), Len(st_fetches) + 1}
    /\ st_pc = "returned" => st_result = Join(full_text)
    /\ EndedByBound =>
          /\ Len(full_text) = 14
          /\ st_fetches[Len(st_fetches)] = <<"url", "?page=", 14>>

\* C18: the pages are fetched in the order 1, 2, 3, ... without gaps, page
\* 1 at the base URL and page N > 1 at the base URL with the page parameter
\* N; a page is fetched only while every page before it yielded content and
\* a next-page link, so the walk stops at the first page that fails, is
\* empty or has no next link; the output joins the chunks of the pages that
\* yielded content in page order; and when every page offers content and a
\* next page the last page fetched is page 14.
C18_PagesInOrder ==
    /\ [](C18_State)
    /\ [][st_fetches' # st_fetches =>
            /\ st_pc = "loop"
            /\ Len(full_text) = Len(st_fetches)
            /\ st_fetches' = Append(st_fetches, IF page = 1 THEN <<"url">> ELSE <<"url", "?page=", page>>)
            /\ page' \in {page, page + 1}
            /\ page' = page + 1 => full_text' # full_text]_vars

\* Fourteen pages with content and a next link were fetched and the loop
\* bound ended the walk.
C18_Witness ==
    /\ EndedByBound
    /\ Len(st_fetches) = 14
    /\ Len(st_result) >= 14


(***************************************************************************)
(* C20 -- fetch loop of the Japanese pipeline                              *)
(***************************************************************************)
Headers(out) == SelectSeq(out, LAMBDA b : b.block = "HEADER")

RECURSIVE ExpectedOutput(_)
\* what the calls made so far must have left in final_output
ExpectedOutput(calls) ==
    IF calls = <<>> THEN <<>>
    ELSE LET k == Len(calls)
             c == calls[k]
         IN  ExpectedOutput(SubSeq(calls, 1, k - 1)) \o
             (IF c.len < 0 THEN <<>>
              ELSE IF c.len > 50
              THEN << format_doc_header(fd_docs[k]), [block |-> "TEXT", url |-> c.url] >>
              ELSE << format_doc_header(fd_docs[k]), [block |-> "WARNING"],
                      [block |-> "VIEW_ORIGINAL", url |-> c.url] >>)

FetchedInOrder ==
    /\ Len(fd_calls) = Len(fd_docs)
    /\ \A k \in 1..Len(fd_docs) :
        /\ fd_calls[k].url = fd_docs[k].url
        /\ fd_calls[k].via = Extractor(fd_docs[k])

\* C20 as stated: the documents are fetched one after the other, the
\* secondary also when the primary failed; a document with 50 or fewer
\* characters of text still gets its header and the warning with its URL;
\* the returned text is non-null and holds exactly one header per selected
\* document, in selection order; the logs are returned alongside.
C20_Original ==
    fd_pc = "returned" =>
        /\ FetchedInOrder
        /\ ~fd_result.is_none
        /\ Headers(fd_result.text) = [k \in 1..Len(fd_docs) |-> format_doc_header(fd_docs[k])]
        /\ fd_result.logs = fd_logs

\* C20 (amended): the documents are fetched one after the other, the
\* secondary also when the primary failed; a document whose extractor
\* returned 50 or fewer characters of text still gets its header and the
\* warning with its URL, a document whose fetch raised adds nothing but a
\* log entry; the returned text holds one header per document whose fetch
\* did not raise, in selection order, and is null exactly when every fetch
\* raised; the logs are returned alongside.
C20_FetchLoop ==
    fd_pc = "returned" =>
        /\ FetchedInOrder
        /\ fd_result.text = ExpectedOutput(fd_calls)
        /\ fd_result.is_none <=> (\A k \in 1..Len(fd_calls) : fd_calls[k].len < 0)
        /\ Len(SelectSeq(fd_logs, LAMBDA e : e[1] = "Failed to fetch"))
             = Len(SelectSeq(fd_calls, LAMBDA c : c.len < 0))
        /\ fd_result.logs = fd_logs

\* a primary that raised, then a secondary fetched with exactly 50 characters
C20_Witness ==
    /\ fd_pc = "returned"
    /\ Len(fd_docs) = 2
    /\ fd_calls[1].len < 0
    /\ fd_calls[2].len = 50
    /\ ~fd_result.is_none

====
